---- MODULE Spec2Model ----
(***************************************************************************)
(* AeX402 StableSwap math (src/math.hpp and the legacy copy in             *)
(* src/stableswap.hpp) as a state machine: a caller picks the arguments of *)
(* one call, the call runs, and the result is recorded.                    *)
(*                                                                         *)
(* The code computes on uint64_t and __uint128_t.  TLC's integers are 32   *)
(* bits wide, so a machine integer is a sequence of 15-bit limbs, least    *)
(* significant first, without leading zero limbs (zero is << >>).  Every   *)
(* C++ operator is modelled at its true width: a 64-bit result is reduced  *)
(* modulo 2^64 and a 128-bit result modulo 2^128, exactly where the C++    *)
(* type of the expression does so.                                         *)
(***************************************************************************)
EXTENDS Integers, Sequences, FiniteSets, TLC

(***************************************************************************)
(* Unsigned machine integers as limb sequences                             *)
(***************************************************************************)
LimbBits == 15
Base == 2^LimbBits

\* e, once the statement that assigns v has run
Then(v, e) == IF v = v THEN e ELSE e

Limb(a, i) == IF 1 <= i /\ i <= Len(a) THEN a[i] ELSE 0

\* the limbs of a without leading zero limbs
Norm(a) ==
    IF a = << >> THEN a
    ELSE IF a[Len(a)] # 0 THEN a
    ELSE LET n == Len(a)
             z == CHOOSE k \in 1..n : /\ k = n \/ a[n - k] # 0
                                      /\ \A j \in (n - k + 1)..n : a[j] = 0
         IN  SubSeq(a, 1, n - z)

RECURSIVE FromInt(_)
FromInt(n) == IF n = 0 THEN << >> ELSE <<n % Base>> \o FromInt(n \div Base)

Zero == << >>
One == <<1>>
IsZero(a) == a = << >>

Cmp(a, b) ==
    IF Len(a) < Len(b) THEN -1
    ELSE IF Len(a) > Len(b) THEN 1
    ELSE IF a = b THEN 0
    ELSE LET n == Len(a)
             k == CHOOSE k \in 0..(n - 1) : /\ a[n - k] # b[n - k]
                                            /\ \A j \in (n - k + 1)..n : a[j] = b[j]
         IN  IF a[n - k] < b[n - k] THEN -1 ELSE 1

Lt(a, b) == Cmp(a, b) < 0
Le(a, b) == Cmp(a, b) <= 0
Gt(a, b) == Cmp(a, b) > 0
Ge(a, b) == Cmp(a, b) >= 0

\* the sequence t(1), ..., t(n)
Limbs(t(_), n) == SubSeq([i \in 1..n |-> t(i)], 1, n)

\* The nearest limb below i of s that is not pass, or limb 1 when there is
\* none: that limb decides the carry (or the borrow) into limb i.
Decider(s, pass, i) ==
    IF s[i - 1] # pass THEN i - 1
    ELSE CHOOSE m \in 1..(i - 1) : /\ m = 1 \/ s[m] # pass
                                   /\ \A j \in (m + 1)..(i - 1) : s[j] = pass

\* The limbs of the number whose limb sums, before carries, are s; no limb
\* sum exceeds 2 * (Base - 1) and the last produces no carry.
Carried(s) ==
    LET carry(i) == IF i = 1 THEN 0 ELSE s[Decider(s, Base - 1, i)] \div Base
        t(i) == (s[i] + carry(i)) % Base
    IN  Limbs(t, Len(s))

\* The limbs of the number whose limb differences, before borrows, are d;
\* the number is not negative.
Borrowed(d) ==
    LET borrow(i) == IF i = 1 THEN 0
                     ELSE IF d[Decider(d, 0, i)] < 0 THEN 1 ELSE 0
        t(i) == (d[i] - borrow(i) + Base) % Base
    IN  Limbs(t, Len(d))

\* a + b, exact
Add(a, b) ==
    IF a = << >> THEN b
    ELSE IF b = << >> THEN a
    ELSE LET n == IF Len(a) > Len(b) THEN Len(a) ELSE Len(b)
             s(i) == Limb(a, i) + Limb(b, i)
         IN  Norm(Carried(Limbs(s, n + 1)))

\* a - b for a >= b, exact
Sub(a, b) ==
    IF b = << >> THEN a
    ELSE LET d(i) == a[i] - Limb(b, i)
         IN  Norm(Borrowed(Limbs(d, Len(a))))

ShiftLimbs(a, n) == IF a = << >> \/ n = 0 THEN a ELSE [i \in 1..n |-> 0] \o a

\* a * k for one limb k, exact: limb i takes the low half of a[i] * k and the
\* high half of a[i - 1] * k
MulSmall(a, k) ==
    IF k = 0 \/ a = << >> THEN << >>
    ELSE LET s(i) == ((Limb(a, i) * k) % Base) + ((Limb(a, i - 1) * k) \div Base)
         IN  Norm(Carried(Limbs(s, Len(a) + 1)))

\* the sum of the rows a * b[j] * Base^(j-1) for j in lo..hi
RECURSIVE MulRows(_, _, _, _)
MulRows(a, b, lo, hi) ==
    IF lo = hi THEN ShiftLimbs(MulSmall(a, b[lo]), lo - 1)
    ELSE LET mid == (lo + hi) \div 2
         IN  Add(MulRows(a, b, lo, mid), MulRows(a, b, mid + 1, hi))

\* a * b, exact
Mul(a, b) == IF a = << >> \/ b = << >> THEN << >> ELSE MulRows(a, b, 1, Len(b))

RECURSIVE QFix(_, _, _)
QFix(r, v, q) == IF Gt(MulSmall(v, q), r) THEN QFix(r, v, q - 1) ELSE q

\* the quotient limb floor(r / v) for r < v * Base, v's top limb >= Base / 2
QDigit(r, v) ==
    IF Lt(r, v) THEN 0
    ELSE LET n == Len(v)
             est == (Limb(r, n + 1) * Base + Limb(r, n)) \div v[n]
         IN  QFix(r, v, IF est > Base - 1 THEN Base - 1 ELSE est)

\* the quotient limb q leaves the remainder r1 - v * q
Reduce(r1, v, q) == [q |-> <<q>>, r |-> Sub(r1, MulSmall(v, q))]

\* one step of long division: limb i of u is brought down to the remainder r
DivStep(u, v, i, r) ==
    LET r1 == Norm(<<u[i]>> \o r)
    IN  Reduce(r1, v, QDigit(r1, v))

\* the steps for limbs hi down to lo of u: the quotient limbs lo..hi and the
\* remainder left
RECURSIVE DivRange(_, _, _, _, _)
DivRange(u, v, hi, lo, r) ==
    IF hi = lo THEN DivStep(u, v, hi, r)
    ELSE LET mid == (hi + lo) \div 2
             h   == DivRange(u, v, hi, mid + 1, r)
             l   == DivRange(u, v, mid, lo, h.r)
         IN  Then(h, [q |-> l.q \o h.q, r |-> l.r])

\* floor(u / v) for u >= v, v's top limb >= Base / 2: schoolbook long
\* division, started below the top Len(v) - 1 limbs of u
LongDiv(u, v) ==
    Norm(DivRange(u, v, Len(u) - Len(v) + 1, 1,
                  SubSeq(u, Len(u) - Len(v) + 2, Len(u))).q)

\* floor(a / b) with both operands scaled by f
DivScaled(a, b, f) == LongDiv(MulSmall(a, f), MulSmall(b, f))

\* floor(a / b) for b # 0, exact
Div(a, b) ==
    IF Lt(a, b) THEN << >> ELSE DivScaled(a, b, Base \div (b[Len(b)] + 1))

\* a mod 2^bits
Trunc(a, bits) ==
    IF Len(a) <= bits \div LimbBits THEN a
    ELSE Norm(SubSeq(a, 1, bits \div LimbBits)
              \o <<a[bits \div LimbBits + 1] % (2^(bits % LimbBits))>>)

(***************************************************************************)
(* C++ unsigned arithmetic at its width                                    *)
(***************************************************************************)
Two == <<2>>
Pow2(bits) == ShiftLimbs(<<2^(bits % LimbBits)>>, bits \div LimbBits)
U64_MAX == Sub(Pow2(64), One)

\* static_cast<uint64_t>(a)
Cast64(a) == Trunc(a, 64)

\* uint64_t operators: results modulo 2^64
U64Add(a, b) == Trunc(Add(a, b), 64)
U64Sub(a, b) == Sub(IF Ge(a, b) THEN a ELSE Add(a, Pow2(64)), b)
U64Mul(a, b) == Trunc(Mul(a, b), 64)

\* __uint128_t operators: results modulo 2^128
U128Add(a, b) == Trunc(Add(a, b), 128)
U128Sub(a, b) == Sub(IF Ge(a, b) THEN a ELSE Add(a, Pow2(128)), b)
U128Mul(a, b) == Trunc(Mul(a, b), 128)

\* |a - b| <= 1, the convergence test of both Newton loops
Within1(a, b) == Le(IF Gt(a, b) THEN Sub(a, b) ELSE Sub(b, a), One)

(***************************************************************************)
(* Results of a call: a value, std::nullopt, or undefined behaviour (an    *)
(* integer division by zero was executed).                                 *)
(***************************************************************************)
Some(v) == [kind |-> "some", val |-> v]
None == [kind |-> "none", val |-> Zero]
Fault == [kind |-> "ub", val |-> Zero]

IsSome(r) == r.kind = "some"
IsNone(r) == r.kind = "none"
IsFault(r) == r.kind = "ub"

\* A loop in progress: its registers, while no pass has returned
Run(v) == [kind |-> "run", val |-> v]


\* The return value of a for loop that is followed by "return std::nullopt"
Returned(st) == IF st.kind = "run" THEN None ELSE st

(***************************************************************************)
(* Constants                                                               *)
(***************************************************************************)
NEWTON_ITERATIONS == 255
FEE_DENOMINATOR == 10000
MIN_AMP == 1
MAX_AMP == 100000

\* isqrt's while loop has no cap; the model follows it for this many passes
MaxSqrtPasses == 200

(***************************************************************************)
(* 128-bit helpers                                                         *)
(***************************************************************************)
mul128(a, b) == Mul(a, b)

\* div128 rounding the quotient up
div128_ceil(n, d) ==
    IF IsZero(d) THEN Zero ELSE Cast64(Div(Add(n, Sub(d, One)), d))

div128(n, d) == IF IsZero(d) THEN Zero ELSE Cast64(Div(n, d))

\* while (y < x) { x = y; y = (x + n / x) / 2; } -- one pass of the loop of
\* isqrt (bits = 64) and isqrt128 (bits = 128) on st.val = <<x, y>>; the loop
\* has left with x when st.kind # "run"
isqrt_body(n, bits, st) ==
    IF ~Lt(st.val[2], st.val[1]) THEN Some(st.val[1])
    ELSE IF IsZero(st.val[2]) THEN Fault
    ELSE Run(<<st.val[2],
               Div(Trunc(Add(st.val[2], Div(n, st.val[2])), bits), Two)>>)

\* k passes of the loop, or fewer when the loop has left
RECURSIVE isqrt_iter(_, _, _, _)
isqrt_iter(n, bits, k, st) ==
    IF st.kind # "run" \/ k = 0 THEN st
    ELSE IF k = 1 THEN isqrt_body(n, bits, st)
    ELSE LET h == isqrt_iter(n, bits, k \div 2, st)
         IN  IF h.kind # "run" THEN h
             ELSE isqrt_iter(n, bits, k - k \div 2, h)

\* x = n; y = (x + 1) / 2; then the loop
isqrt_from(n, bits) ==
    isqrt_iter(n, bits, MaxSqrtPasses,
               Run(<<n, Div(Trunc(Add(n, One), bits), Two)>>))

isqrt(n) ==
    IF IsZero(n) THEN Some(Zero)
    ELSE IF Le(n, <<3>>) THEN Some(One)
    ELSE isqrt_from(n, 64)

\* the value returned is static_cast<uint64_t>(x)
isqrt128_cast(r) == IF IsSome(r) THEN Some(Cast64(r.val)) ELSE r

isqrt128(n) ==
    IF IsZero(n) THEN Some(Zero)
    ELSE IF Le(n, <<3>>) THEN Some(One)
    ELSE isqrt128_cast(isqrt_from(n, 128))

(***************************************************************************)
(* 2-token pool math                                                       *)
(***************************************************************************)
\* the end of a pass that returns only an iterate equal to the previous one
newton_converged_exact(v, v1) == IF v1 = v THEN Some(v1) ELSE Run(v1)

\* The end of one pass of a Newton loop on the iterate v: the next iterate
\* v1 is returned if it is within 1 of v, else the loop goes on with it
newton_converged(v, v1) == IF Within1(v1, v) THEN Some(v1) ELSE Run(v1)

\* if (denom == 0) return std::nullopt; v1 = static_cast<uint64_t>(num / denom)
newton_step(v, num, denom) ==
    Then(num, IF IsZero(denom) THEN None
              ELSE newton_converged(v, Cast64(Div(num, denom))))

\* one pass of calc_d's for loop on the iterate d, once d_p is computed
calc_d_step(s, ann, d, d_p) ==
    Then(d_p,
         newton_step(d,
                     U128Mul(U128Add(mul128(ann, s), U128Mul(d_p, Two)), d),
                     U128Add(mul128(U64Sub(ann, One), d), U128Mul(d_p, <<3>>))))

\* calc_d's d_p left at its first step, d * d / (2 * x)
calc_d_p_first_only(y2, d, d_p) == d_p

\* d_p = d_p * d / y2
calc_d_p(y2, d, d_p) == Then(d_p, Div(U128Mul(d_p, d), y2))

\* one pass of calc_d's for loop on the iterate st.val
calc_d_body(x, y, s, ann, st) ==
    IF IsZero(U64Mul(Two, x)) \/ IsZero(U64Mul(Two, y)) THEN Fault
    ELSE calc_d_step(s, ann, st.val,
                     calc_d_p(U64Mul(Two, y), st.val,
                              Div(mul128(st.val, st.val), U64Mul(Two, x))))

\* k passes of the loop, or fewer when a pass returns
RECURSIVE calc_d_iter(_, _, _, _, _, _)
calc_d_iter(x, y, s, ann, k, st) ==
    IF st.kind # "run" \/ k = 0 THEN st
    ELSE IF k = 1 THEN calc_d_body(x, y, s, ann, st)
    ELSE LET h == calc_d_iter(x, y, s, ann, k \div 2, st)
         IN  IF h.kind # "run" THEN h
             ELSE calc_d_iter(x, y, s, ann, k - k \div 2, h)

\* calc_d from the sum s of the balances on
calc_d_sum(x, y, amp, s) ==
    IF IsZero(s) THEN Some(Zero)
    ELSE Returned(calc_d_iter(x, y, s, U64Mul(amp, <<4>>), NEWTON_ITERATIONS, Run(s)))

calc_d(x, y, amp) == calc_d_sum(x, y, amp, U64Add(x, y))

\* one pass of calc_y's for loop on the iterate st.val
calc_y_body(c, b, d, st) ==
    newton_step(st.val,
                U128Add(mul128(st.val, st.val), c),
                U64Sub(U64Add(U64Mul(Two, st.val), b), d))

RECURSIVE calc_y_iter(_, _, _, _, _)
calc_y_iter(c, b, d, k, st) ==
    IF st.kind # "run" \/ k = 0 THEN st
    ELSE IF k = 1 THEN calc_y_body(c, b, d, st)
    ELSE LET h == calc_y_iter(c, b, d, k \div 2, st)
         IN  IF h.kind # "run" THEN h
             ELSE calc_y_iter(c, b, d, k - k \div 2, h)

\* calc_y's loop, y starting at d
calc_y_loop(c, b, d) ==
    Then(c, Then(b, Returned(calc_y_iter(c, b, d, NEWTON_ITERATIONS, Run(d)))))

\* c = c * d / (2 * ann)
calc_y_c(c, d, ann) == Then(c, Div(U128Mul(c, d), U64Mul(Two, ann)))

\* calc_y from ann = amp * 4 on
calc_y_ann(x_new, d, ann) ==
    IF IsZero(U64Mul(Two, x_new)) \/ IsZero(U64Mul(Two, ann)) \/ IsZero(ann)
    THEN Fault
    ELSE calc_y_loop(calc_y_c(Div(mul128(d, d), U64Mul(Two, x_new)), d, ann),
                     U64Add(x_new, Div(d, ann)),
                     d)

calc_y(x_new, d, amp) == calc_y_ann(x_new, d, U64Mul(amp, <<4>>))

\* amount_out -= amount_out * fee_bps / FEE_DENOMINATOR, in uint64_t
apply_fee(amount_out, fee_bps) ==
    U64Sub(amount_out, Div(U64Mul(amount_out, fee_bps), FromInt(FEE_DENOMINATOR)))

\* the end of the swap without the test new_bal_out >= bal_out
swap_out_unclamped(bal_out, fee_bps, new_bal_out) ==
    IF ~IsSome(new_bal_out) THEN new_bal_out
    ELSE Some(apply_fee(U64Sub(bal_out, new_bal_out.val), fee_bps))

\* the end of simulate_swap and simulate_swap_n, from the solved new balance
\* of the output token on
swap_out(bal_out, fee_bps, new_bal_out) ==
    IF ~IsSome(new_bal_out) THEN new_bal_out
    ELSE IF Ge(new_bal_out.val, bal_out) THEN Some(Zero)
    ELSE Some(apply_fee(Sub(bal_out, new_bal_out.val), fee_bps))

\* simulate_swap going on with the value of d without testing it
swap_with_d_unchecked(bal_in, bal_out, amount_in, amp, fee_bps, d) ==
    swap_out(bal_out, fee_bps, calc_y(U64Add(bal_in, amount_in), d.val, amp))

\* simulate_swap from the invariant d of the current balances on
swap_with_d(bal_in, bal_out, amount_in, amp, fee_bps, d) ==
    IF ~IsSome(d) THEN d
    ELSE swap_out(bal_out, fee_bps, calc_y(U64Add(bal_in, amount_in), d.val, amp))

simulate_swap(bal_in, bal_out, amount_in, amp, fee_bps) ==
    swap_with_d(bal_in, bal_out, amount_in, amp, fee_bps,
                calc_d(bal_in, bal_out, amp))

(***************************************************************************)
(* Liquidity accounting                                                    *)
(***************************************************************************)
\* calc_initial_lp with the product taken in uint64_t
calc_initial_lp_narrow(amount0, amount1) == isqrt128(U64Mul(amount0, amount1))

calc_initial_lp(amount0, amount1) == isqrt128(mul128(amount0, amount1))

\* calc_lp_tokens with supply, from the two invariants on
lp_from_d(lp_supply, d0, d1) ==
    IF IsFault(d0) \/ IsFault(d1) THEN Fault
    ELSE IF IsNone(d0) \/ IsNone(d1) \/ IsZero(d0.val) THEN None
    ELSE Some(Cast64(Div(mul128(lp_supply, U64Sub(d1.val, d0.val)), d0.val)))

calc_lp_tokens(amt0, amt1, bal0, bal1, lp_supply, amp) ==
    IF IsZero(lp_supply) THEN calc_initial_lp(amt0, amt1)
    ELSE lp_from_d(lp_supply,
                   calc_d(bal0, bal1, amp),
                   calc_d(U64Add(bal0, amt0), U64Add(bal1, amt1), amp))

\* calc_withdraw with the two products taken in uint64_t
calc_withdraw_narrow(lp_amount, bal0, bal1, lp_supply) ==
    IF IsZero(lp_supply) THEN None
    ELSE Some(<<div128(U64Mul(bal0, lp_amount), lp_supply),
                div128(U64Mul(bal1, lp_amount), lp_supply)>>)

calc_withdraw(lp_amount, bal0, bal1, lp_supply) ==
    IF IsZero(lp_supply) THEN None
    ELSE Some(<<div128(mul128(bal0, lp_amount), lp_supply),
                div128(mul128(bal1, lp_amount), lp_supply)>>)

PRECISION_18 == Mul(FromInt(10^9), FromInt(10^9))

\* calc_virtual_price with the product taken in uint64_t
virtual_price_from_d_narrow(lp_supply, d) ==
    IF ~IsSome(d) THEN d
    ELSE Some(Div(U64Mul(d.val, PRECISION_18), lp_supply))

\* calc_virtual_price from the invariant on
virtual_price_from_d(lp_supply, d) ==
    IF ~IsSome(d) THEN d
    ELSE Some(Div(U128Mul(d.val, PRECISION_18), lp_supply))

calc_virtual_price(bal0, bal1, lp_supply, amp) ==
    IF IsZero(lp_supply) THEN None
    ELSE virtual_price_from_d(lp_supply, calc_d(bal0, bal1, amp))

(***************************************************************************)
(* Amplification ramp.  An int64_t is its two's complement bit pattern.    *)
(***************************************************************************)
IsNeg(a) == Ge(a, Pow2(63))

\* a < b on int64_t
SLt(a, b) == IF IsNeg(a) = IsNeg(b) THEN Lt(a, b) ELSE IsNeg(a)
SLe(a, b) == a = b \/ SLt(a, b)

\* a - b on int64_t leaves the type's range: undefined behaviour
SSubOverflows(a, b) == IsNeg(a) # IsNeg(b) /\ IsNeg(U64Sub(a, b)) # IsNeg(a)

\* the interpolation always adding the step to amp
interpolate_up(amp, target_amp, elapsed, duration) ==
    IF Gt(target_amp, amp)
    THEN Some(U64Add(amp, Div(U64Mul(Sub(target_amp, amp), elapsed), duration)))
    ELSE Some(U64Add(amp, Div(U64Mul(Sub(amp, target_amp), elapsed), duration)))

\* the interpolation dividing before it multiplies
interpolate_divfirst(amp, target_amp, elapsed, duration) ==
    IF Gt(target_amp, amp)
    THEN Some(U64Add(amp, U64Mul(Div(Sub(target_amp, amp), duration), elapsed)))
    ELSE Some(U64Sub(amp, U64Mul(Div(Sub(amp, target_amp), duration), elapsed)))

\* the linear interpolation, elapsed and duration converted to uint64_t
interpolate(amp, target_amp, elapsed, duration) ==
    IF Gt(target_amp, amp)
    THEN Some(U64Add(amp, Div(U64Mul(Sub(target_amp, amp), elapsed), duration)))
    ELSE Some(U64Sub(amp, Div(U64Mul(Sub(amp, target_amp), elapsed), duration)))

\* get_current_amp with its first two tests in the other order
get_current_amp_swapped(amp, target_amp, ramp_start, ramp_end, now) ==
    IF SLe(now, ramp_start) THEN Some(amp)
    ELSE IF SLe(ramp_end, now) \/ ramp_end = ramp_start THEN Some(target_amp)
    ELSE IF SSubOverflows(now, ramp_start) \/ SSubOverflows(ramp_end, ramp_start)
    THEN Fault
    ELSE interpolate(amp, target_amp, U64Sub(now, ramp_start),
                     U64Sub(ramp_end, ramp_start))

get_current_amp(amp, target_amp, ramp_start, ramp_end, now) ==
    IF SLe(ramp_end, now) \/ ramp_end = ramp_start THEN Some(target_amp)
    ELSE IF SLe(now, ramp_start) THEN Some(amp)
    ELSE IF SSubOverflows(now, ramp_start) \/ SSubOverflows(ramp_end, ramp_start)
    THEN Fault
    ELSE interpolate(amp, target_amp, U64Sub(now, ramp_start),
                     U64Sub(ramp_end, ramp_start))

(***************************************************************************)
(* Farming math                                                            *)
(***************************************************************************)
PRECISION == Mul(FromInt(10^6), FromInt(10^6))

\* calc_pending_reward from earned on
pending_from_earned(earned, reward_debt) ==
    IF Le(earned, reward_debt) THEN Zero ELSE Cast64(Sub(earned, reward_debt))

calc_pending_reward(staked, acc_reward, reward_debt) ==
    pending_from_earned(Div(mul128(staked, acc_reward), PRECISION), reward_debt)

calc_new_acc_reward(current_acc, reward, total_staked) ==
    IF IsZero(total_staked) THEN current_acc
    ELSE U64Add(current_acc, Cast64(Div(mul128(reward, PRECISION), total_staked)))

(***************************************************************************)
(* N-token pool math.  balances is a sequence of n_tokens machine integers; *)
(* token indices count from 0 as in the code.                              *)
(***************************************************************************)
RECURSIVE SumU64(_, _)
SumU64(balances, i) ==
    IF i = 0 THEN Zero ELSE U64Add(SumU64(balances, i - 1), balances[i])

\* nn, the __uint128_t n^n
PowNN(n_tokens) == FromInt(n_tokens ^ n_tokens)

\* the inner for loop of calc_d_n without the test balances[i] == 0
RECURSIVE fold_d_p_unchecked(_, _, _, _)
fold_d_p_unchecked(balances, d, i, d_p) ==
    IF i > Len(balances) THEN Some(d_p)
    ELSE LET div == U64Mul(FromInt(Len(balances)), balances[i])
         IN  IF IsZero(div) THEN Fault
             ELSE Then(d_p, fold_d_p_unchecked(balances, d, i + 1,
                                               Div(U128Mul(d_p, d), div)))

\* the inner for loop of calc_d_n over tokens i..n: d_p = d_p * d / (n * balances[i])
RECURSIVE fold_d_p(_, _, _, _)
fold_d_p(balances, d, i, d_p) ==
    IF i > Len(balances) THEN Some(d_p)
    ELSE IF IsZero(balances[i]) THEN None
    ELSE LET div == U64Mul(FromInt(Len(balances)), balances[i])
         IN  IF IsZero(div) THEN Fault
             ELSE Then(d_p, fold_d_p(balances, d, i + 1, Div(U128Mul(d_p, d), div)))

\* one pass of calc_d_n's Newton loop on the iterate d, once the inner loop
\* has returned dp
calc_d_n_step(s, ann, n, d, dp) ==
    IF ~IsSome(dp) THEN dp
    ELSE newton_step(d,
                     U128Mul(U128Add(mul128(ann, s), U128Mul(dp.val, FromInt(n))), d),
                     U128Add(mul128(U64Sub(ann, One), d),
                             U128Mul(dp.val, FromInt(n + 1))))

calc_d_n_body(balances, s, ann, st) ==
    calc_d_n_step(s, ann, Len(balances), st.val,
                  fold_d_p(balances, st.val, 1, st.val))

RECURSIVE calc_d_n_iter(_, _, _, _, _)
calc_d_n_iter(balances, s, ann, k, st) ==
    IF st.kind # "run" \/ k = 0 THEN st
    ELSE IF k = 1 THEN calc_d_n_body(balances, s, ann, st)
    ELSE LET h == calc_d_n_iter(balances, s, ann, k \div 2, st)
         IN  IF h.kind # "run" THEN h
             ELSE calc_d_n_iter(balances, s, ann, k - k \div 2, h)

\* calc_d_n from the sum s of the balances on
calc_d_n_sum(balances, amp, s) ==
    IF IsZero(s) THEN Some(Zero)
    ELSE Returned(calc_d_n_iter(balances, s,
                                U64Mul(amp, Cast64(PowNN(Len(balances)))),
                                NEWTON_ITERATIONS, Run(s)))

calc_d_n(balances, amp) ==
    calc_d_n_sum(balances, amp, SumU64(balances, Len(balances)))

\* the fold of calc_y_n over the tokens other than to_idx, on <<s_prime, c>>
RECURSIVE fold_c(_, _, _, _, _, _)
fold_c(balances, new_balances, from_idx, to_idx, d, st) ==
    LET i == st.i
    IN  IF i > Len(balances) THEN Some(<<st.s_prime, st.c>>)
        ELSE IF i - 1 = to_idx
        THEN fold_c(balances, new_balances, from_idx, to_idx, d, [st EXCEPT !.i = i + 1])
        ELSE LET x   == IF i - 1 = from_idx THEN new_balances[i] ELSE balances[i]
                 div == U64Mul(FromInt(Len(balances)), x)
             IN  IF IsZero(x) THEN None
                 ELSE IF IsZero(div) THEN Fault
                 ELSE fold_c(balances, new_balances, from_idx, to_idx, d,
                             [i |-> i + 1, s_prime |-> U64Add(st.s_prime, x),
                              c |-> Div(U128Mul(st.c, d), div)])

\* one pass of calc_y_n's Newton loop: as calc_y's, with c cut to 64 bits
calc_y_n_body(c, b, d, st) == calc_y_body(Cast64(c), b, d, st)

RECURSIVE calc_y_n_iter(_, _, _, _, _)
calc_y_n_iter(c, b, d, k, st) ==
    IF st.kind # "run" \/ k = 0 THEN st
    ELSE IF k = 1 THEN calc_y_n_body(c, b, d, st)
    ELSE LET h == calc_y_n_iter(c, b, d, k \div 2, st)
         IN  IF h.kind # "run" THEN h
             ELSE calc_y_n_iter(c, b, d, k - k \div 2, h)

\* calc_y_n's Newton loop, y starting at d
calc_y_n_loop(c, b, d) ==
    Then(c, Then(b, Returned(calc_y_n_iter(c, b, d, NEWTON_ITERATIONS, Run(d)))))

\* calc_y_n from the result fr of the fold on
calc_y_n_fold(n, ann, d, fr) ==
    IF ~IsSome(fr) THEN fr
    ELSE IF IsZero(U64Mul(ann, FromInt(n))) \/ IsZero(ann) THEN Fault
    ELSE calc_y_n_loop(Div(U128Mul(fr.val[2], d), U64Mul(ann, FromInt(n))),
                       U64Add(fr.val[1], Div(d, ann)),
                       d)

\* calc_y_n from the invariant dr of the original balances on
calc_y_n_d(balances, new_balances, from_idx, to_idx, ann, dr) ==
    IF ~IsSome(dr) THEN dr
    ELSE calc_y_n_fold(Len(balances), ann, dr.val,
                       fold_c(balances, new_balances, from_idx, to_idx, dr.val,
                              [i |-> 1, s_prime |-> Zero, c |-> dr.val]))

calc_y_n(balances, from_idx, to_idx, amount_in, amp) ==
    calc_y_n_d(balances,
               [balances EXCEPT ![from_idx + 1] = U64Add(@, amount_in)],
               from_idx, to_idx,
               U64Mul(amp, Cast64(PowNN(Len(balances)))),
               calc_d_n(balances, amp))

simulate_swap_n(balances, from_idx, to_idx, amount_in, amp, fee_bps) ==
    swap_out(balances[to_idx + 1], fee_bps,
             calc_y_n(balances, from_idx, to_idx, amount_in, amp))

(***************************************************************************)
(* The caller.  A behaviour of the pool math is one call: Init fixes the   *)
(* arguments, the action of the called function runs it to its return and  *)
(* records the outcome.  A behaviour of the farm is a sequence of calls on *)
(* the farm's stored fields.                                               *)
(*   args  the arguments of the call, a record                             *)
(*   op    the function called last ("" before the first call)             *)
(*   out   what the caller observes                                        *)
(*   ub    the call executed undefined behaviour                           *)
(*   pc    "start" before the call, "done" after it                        *)
(*   farm  Farm::acc_reward, Farm::total_staked, UserFarm::staked and      *)
(*         UserFarm::reward_debt, and the number of updates made           *)
(*   loop  when a Newton loop is followed pass by pass: the number of      *)
(*         passes made, the iterate, and the values fixed before the loop  *)
(***************************************************************************)
VARIABLES args, op, out, ub, pc, farm, loop

vars == <<args, op, out, ub, pc, farm, loop>>

Crash == [kind |-> "crash", val |-> Zero]
NoCall == [kind |-> "nocall", val |-> Zero]
NoLoop == [i |-> 0, st |-> NoCall, regs |-> << >>]
NoFarm == [acc_reward |-> Zero, total_staked |-> Zero, staked |-> Zero,
           reward_debt |-> Zero, updates |-> 0]

\* What a build may do once a division by zero has been executed: trap (x86
\* raises SIGFPE), or carry on with an unspecified quotient and return anything.
UBOutcomes == {Crash, None, Some(Zero), Some(One), Some(U64_MAX)}

Outcomes(r) == IF IsFault(r) THEN UBOutcomes ELSE {r}

Start(a) == /\ args = a
            /\ op = ""
            /\ out = NoCall
            /\ ub = FALSE
            /\ pc = "start"
            /\ farm = NoFarm
            /\ loop = NoLoop

Return(name, r) == /\ pc' = "done"
                   /\ op' = name
                   /\ ub' = IsFault(r)
                   /\ out' \in Outcomes(r)
                   /\ UNCHANGED <<args, farm, loop>>

Call_isqrt ==
    /\ pc = "start"
    /\ Lt(args.n, Pow2(64))
    /\ Return("isqrt", isqrt(args.n))

Call_isqrt128 ==
    /\ pc = "start"
    /\ Return("isqrt128", isqrt128(args.n))

Call_calc_d ==
    /\ pc = "start"
    /\ Return("calc_d", calc_d(args.bal0, args.bal1, args.amp))

Call_calc_y ==
    /\ pc = "start"
    /\ Return("calc_y", calc_y(args.x_new, args.d, args.amp))

Call_simulate_swap ==
    /\ pc = "start"
    /\ Return("simulate_swap",
           simulate_swap(args.bal0, args.bal1, args.amount_in, args.amp, args.fee_bps))

Call_calc_lp_tokens ==
    /\ pc = "start"
    /\ Return("calc_lp_tokens",
           calc_lp_tokens(args.amt0, args.amt1, args.bal0, args.bal1,
                          args.lp_supply, args.amp))

Call_calc_withdraw ==
    /\ pc = "start"
    /\ Return("calc_withdraw",
           calc_withdraw(args.lp_amount, args.bal0, args.bal1, args.lp_supply))

Call_calc_virtual_price ==
    /\ pc = "start"
    /\ Return("calc_virtual_price",
           calc_virtual_price(args.bal0, args.bal1, args.lp_supply, args.amp))

Call_get_current_amp ==
    /\ pc = "start"
    /\ Return("get_current_amp",
           get_current_amp(args.amp, args.target_amp, args.ramp_start,
                           args.ramp_end, args.now))

Call_calc_d_n ==
    /\ pc = "start"
    /\ Return("calc_d_n", calc_d_n(args.balances, args.amp))

Call_calc_y_n ==
    /\ pc = "start"
    /\ Return("calc_y_n",
           calc_y_n(args.balances, args.from_idx, args.to_idx, args.amount_in, args.amp))

Call_simulate_swap_n ==
    /\ pc = "start"
    /\ Return("simulate_swap_n",
           simulate_swap_n(args.balances, args.from_idx, args.to_idx,
                           args.amount_in, args.amp, args.fee_bps))

Call_calc_pending_reward ==
    /\ pc = "start"
    /\ Return("calc_pending_reward",
           Some(calc_pending_reward(args.staked, args.acc_reward, args.reward_debt)))

Call_calc_new_acc_reward ==
    /\ pc = "start"
    /\ Return("calc_new_acc_reward",
           Some(calc_new_acc_reward(args.acc_reward, args.reward, args.total_staked)))

Called(name) == pc = "done" /\ op = name

(***************************************************************************)
(* Argument values                                                         *)
(***************************************************************************)
N(n) == FromInt(n)

RECURSIVE Pow10(_)
Pow10(e) == IF e = 0 THEN One ELSE MulSmall(Pow10(e - 1), 10)

\* m * 10^e
E(m, e) == MulSmall(Pow10(e), m)

\* 2^64 - n, the uint64_t that -n converts to
Neg64(n) == Sub(Pow2(64), N(n))

Prefix(table, n) == {table[i] : i \in 1..(IF n < Len(table) THEN n ELSE Len(table))}

AmpInRange(a) == Ge(a, N(MIN_AMP)) /\ Le(a, N(MAX_AMP))

AmpTable == <<N(1), N(100), N(100000), N(1000), N(2), N(10)>>

\* floor(a * b / c) and floor(sqrt), in unbounded arithmetic
MulDiv(a, b, c) == Then(a, Then(b, Then(c, Div(Mul(a, b), c))))

IsFloorSqrt(r, n) == Le(Mul(r, r), n) /\ Lt(n, Mul(Add(r, One), Add(r, One)))

(***************************************************************************)
(* SpecD: one call of calc_d                                               *)
(***************************************************************************)
NumDBal == 6
NumDAmp == 3

DBalTable == <<Zero, N(1), E(1, 18), N(584), N(2), E(1, 6), N(35), N(3)>>

DBals == Prefix(DBalTable, NumDBal)
DAmps == Prefix(AmpTable, NumDAmp)

InitD == \E b0 \in DBals, b1 \in DBals, a \in DAmps :
             Start([bal0 |-> b0, bal1 |-> b1, amp |-> a])

NextD == Call_calc_d

SpecD == InitD /\ [][NextD]_vars

\* C1: calc_d with exactly one balance equal to 0 (amp in [1,100000]) returns
\* std::nullopt: it returns no number and executes no division by zero.
C1_OneZeroBalanceFails ==
    (/\ Called("calc_d")
     /\ IsZero(args.bal0) # IsZero(args.bal1)
     /\ AmpInRange(args.amp))
    => (~ub /\ out = None)

\* C4: for a balanced pool (bal0 = bal1 > 0) and amp >= 1, calc_d succeeds and
\* its result differs from bal0 + bal1 by at most 1.
C4_BalancedPoolD ==
    (/\ Called("calc_d")
     /\ args.bal0 = args.bal1
     /\ ~IsZero(args.bal0)
     /\ Ge(args.amp, One))
    => (IsSome(out) /\ Within1(out.val, Add(args.bal0, args.bal1)))

NumSwapBal == 3
NumSwapAmount == 2
NumSwapAmp == 2
NumFee == 3

SwapBalTable == <<N(1), N(11), E(1, 16), E(1, 12), N(100)>>
SwapAmountTable == <<N(7), E(5, 15), N(1), E(1, 10)>>
FeeTable == <<Zero, N(3000), N(4000), N(10000), N(30)>>

SwapBals == Prefix(SwapBalTable, NumSwapBal)
SwapAmounts == Prefix(SwapAmountTable, NumSwapAmount)
SwapAmps == Prefix(AmpTable, NumSwapAmp)
Fees == Prefix(FeeTable, NumFee)

InitSwap == \E b0 \in SwapBals, b1 \in SwapBals, x \in SwapAmounts,
               a \in SwapAmps, f \in Fees :
                Start([bal0 |-> b0, bal1 |-> b1, amount_in |-> x, amp |-> a,
                       fee_bps |-> f])

NextSwap == Call_simulate_swap

SpecSwap == InitSwap /\ [][NextSwap]_vars

\* the invariant before the trade and the one of the balances after it
InvariantKept(pre, post) ==
    (IsSome(pre) /\ IsSome(post)) => Ge(Add(post.val, One), pre.val)

\* C2: for positive balances and amp in range, when simulate_swap with fee 0
\* returns out, the invariant of the post-trade balances is not smaller than
\* the pre-trade one, within tolerance 1:
\* calc_d(bal_in + x, bal_out - out, amp) + 1 >= calc_d(bal_in, bal_out, amp).
C2_SwapKeepsInvariant ==
    (/\ Called("simulate_swap")
     /\ ~ub
     /\ IsSome(out)
     /\ IsZero(args.fee_bps)
     /\ ~IsZero(args.bal0) /\ ~IsZero(args.bal1)
     /\ AmpInRange(args.amp))
    => InvariantKept(calc_d(args.bal0, args.bal1, args.amp),
                     calc_d(U64Add(args.bal0, args.amount_in),
                            U64Sub(args.bal1, out.val), args.amp))

\* r2, the result with a fee rate not below the one that gave r1
NotAbove(r2, r1) == IsSome(r2) => Ge(r1.val, r2.val)

\* C3: fee monotonicity: on fixed (bal_in, bal_out, amount_in, amp), for fee
\* rates F1 <= F2 in 0..10000, simulate_swap(.., F1) >= simulate_swap(.., F2).
C3_FeeMonotone ==
    (Called("simulate_swap") /\ ~ub /\ IsSome(out))
    => \A f2 \in Fees :
           Le(args.fee_bps, f2)
           => NotAbove(simulate_swap(args.bal0, args.bal1, args.amount_in,
                                     args.amp, f2), out)

\* the new balance of the output token that simulate_swap solves for
SolvedBalance(bal_in, amount_in, amp, d) ==
    IF IsSome(d) THEN calc_y(U64Add(bal_in, amount_in), d.val, amp) ELSE d

\* gross less floor(gross * fee_bps / 10000), in unbounded arithmetic
NetOfFee(gross, fee_bps) ==
    Sub(gross, MulDiv(gross, fee_bps, N(FEE_DENOMINATOR)))

\* the result res of a swap that solved the new balance y below bal_out
FeeCharged(bal_out, fee_bps, y, res) ==
    (IsSome(y) /\ Lt(y.val, bal_out))
    => /\ res = Some(NetOfFee(Sub(bal_out, y.val), fee_bps))
       /\ Le(res.val, Sub(bal_out, y.val))

\* C12: when both solves succeed and the solved balance is below bal_out,
\* simulate_swap returns gross - floor(gross * fee_bps / 10000) with
\* gross = bal_out - calc_y(bal_in + amount_in, calc_d(bal_in, bal_out, amp), amp),
\* and the result is not greater than gross (fee_bps in 0..10000).
C12_SwapNetOfFee ==
    (Called("simulate_swap") /\ ~ub /\ Le(args.fee_bps, N(FEE_DENOMINATOR)))
    => FeeCharged(args.bal1, args.fee_bps,
                  SolvedBalance(args.bal0, args.amount_in, args.amp,
                                calc_d(args.bal0, args.bal1, args.amp)),
                  out)

(***************************************************************************)
(* SpecCompose: one call of a function that solves for the invariant       *)
(* first: simulate_swap, calc_lp_tokens, calc_virtual_price, calc_y_n or   *)
(* simulate_swap_n (on the pool <<bal0, bal1>>, token 0 in, token 1 out)   *)
(***************************************************************************)
NumComposeBal0 == 3
NumComposeBal1 == 2
NumComposeAmount == 3
NumComposeAmp == 2

ComposeBal0Table == <<N(584), N(583), N(1), N(100), N(10)>>
ComposeBal1Table == <<N(1), N(100), N(584), N(10)>>
ComposeAmountTable == <<N(1), Neg64(3), Zero, N(7), N(50)>>

InitCompose ==
    \E b0 \in Prefix(ComposeBal0Table, NumComposeBal0),
       b1 \in Prefix(ComposeBal1Table, NumComposeBal1),
       x \in Prefix(ComposeAmountTable, NumComposeAmount),
       a \in Prefix(AmpTable, NumComposeAmp) :
        Start([bal0 |-> b0, bal1 |-> b1, balances |-> <<b0, b1>>,
               from_idx |-> 0, to_idx |-> 1, amount_in |-> x,
               amt0 |-> x, amt1 |-> Zero, lp_supply |-> N(1000), amp |-> a,
               fee_bps |-> N(30)])

NextCompose ==
    \/ Call_simulate_swap
    \/ Call_calc_lp_tokens
    \/ Call_calc_virtual_price
    \/ Call_calc_y_n
    \/ Call_simulate_swap_n

SpecCompose == InitCompose /\ [][NextCompose]_vars

\* the solves of the call made: the invariant of the pool, the invariant
\* after a deposit, the N-token invariant, the new balance of a swap
SolveD == calc_d(args.bal0, args.bal1, args.amp)
SolveDAfter == calc_d(U64Add(args.bal0, args.amt0), U64Add(args.bal1, args.amt1),
                      args.amp)
SolveDN == calc_d_n(args.balances, args.amp)
SolveY == SolvedBalance(args.bal0, args.amount_in, args.amp, SolveD)
SolveYN == calc_y_n(args.balances, args.from_idx, args.to_idx, args.amount_in,
                    args.amp)

\* a solve of the call made has returned std::nullopt
SolveFailed ==
    \/ op \in {"simulate_swap", "calc_lp_tokens", "calc_virtual_price"}
       /\ IsNone(SolveD)
    \/ op = "calc_lp_tokens" /\ IsNone(SolveDAfter)
    \/ op \in {"calc_y_n", "simulate_swap_n"} /\ IsNone(SolveDN)
    \/ op = "simulate_swap" /\ IsNone(SolveY)

\* C10: failure propagation: when calc_d (calc_d_n for the N-token
\* functions) returns std::nullopt on the inputs of simulate_swap,
\* calc_lp_tokens with supply (the solve before or the one after the
\* deposit), calc_virtual_price, calc_y_n or simulate_swap_n, the function
\* returns std::nullopt and no number; so does simulate_swap when calc_y
\* returns std::nullopt.
C10_FailurePropagates ==
    (pc = "done" /\ ~ub /\ SolveFailed) => out = None

\* a solve before the deposit succeeded and the one after it failed, and the
\* call failed
C10_Witness ==
    /\ Called("calc_lp_tokens") /\ ~ub
    /\ IsSome(SolveD) /\ IsNone(SolveDAfter)
    /\ out = None

\* the new balance solved is not below the balance of the output token
ClampCase ==
    \/ Called("simulate_swap") /\ IsSome(SolveY) /\ Ge(SolveY.val, args.bal1)
    \/ Called("simulate_swap_n") /\ IsSome(SolveYN)
       /\ Ge(SolveYN.val, args.balances[args.to_idx + 1])

\* C11: whenever the solved new balance of the output token is >= its
\* current balance, simulate_swap and simulate_swap_n return 0 successfully,
\* not a wrapped difference and not a failure.
C11_UnderflowClamp ==
    (~ub /\ ClampCase) => out = Some(Zero)

\* simulate_swap_n solved a balance above the current one and returned 0
C11_Witness ==
    /\ Called("simulate_swap_n") /\ ~ub
    /\ IsSome(SolveYN) /\ Gt(SolveYN.val, args.bal1)
    /\ out = Some(Zero)

(***************************************************************************)
(* SpecInitialDeposit: one call of calc_lp_tokens on an empty pool         *)
(***************************************************************************)
NumInitialAmount == 4
NumInitialBal == 2
NumInitialAmp == 2

InitialAmountTable == <<E(1, 8), E(4, 8), E(1, 10), N(3), Neg64(1), Zero, N(2)>>
InitialBalTable == <<Zero, E(1, 12), N(35), N(1)>>

InitInitialDeposit ==
    \E a0 \in Prefix(InitialAmountTable, NumInitialAmount),
       a1 \in Prefix(InitialAmountTable, NumInitialAmount),
       b0 \in Prefix(InitialBalTable, NumInitialBal),
       b1 \in Prefix(InitialBalTable, NumInitialBal),
       a \in Prefix(AmpTable, NumInitialAmp) :
        Start([amt0 |-> a0, amt1 |-> a1, bal0 |-> b0, bal1 |-> b1,
               lp_supply |-> Zero, amp |-> a])

NextInitialDeposit == Call_calc_lp_tokens

SpecInitialDeposit == InitInitialDeposit /\ [][NextInitialDeposit]_vars

NumDepositAmount == 3
NumDepositBal0 == 3
NumDepositSupply == 2
NumDepositAmp == 2

DepositAmountTable == <<N(1), Zero, E(1, 6), E(1, 11)>>
DepositBal0Table == <<N(35), N(1), E(1, 12), N(100)>>
DepositSupplyTable == <<N(1000), E(1, 19), E(2, 12)>>

InitDeposit ==
    \E a0 \in Prefix(DepositAmountTable, NumDepositAmount),
       a1 \in Prefix(DepositAmountTable, NumDepositAmount),
       b0 \in Prefix(DepositBal0Table, NumDepositBal0),
       s \in Prefix(DepositSupplyTable, NumDepositSupply),
       a \in Prefix(AmpTable, NumDepositAmp) :
        Start([amt0 |-> a0, amt1 |-> a1, bal0 |-> b0,
               bal1 |-> IF Gt(b0, N(35)) THEN b0 ELSE One,
               lp_supply |-> s, amp |-> a])

NextDeposit == Call_calc_lp_tokens

SpecDeposit == InitDeposit /\ [][NextDeposit]_vars

\* C8: in calc_lp_tokens with lp_supply > 0, when the invariant after the
\* deposit is smaller than the one before it (D1 < D0), the call returns
\* failure, not an amount computed from the wrapped difference D1 - D0.
C8_ShrunkInvariantFails ==
    (/\ Called("calc_lp_tokens") /\ ~ub
     /\ ~IsZero(args.lp_supply)
     /\ IsSome(SolveD) /\ IsSome(SolveDAfter)
     /\ Lt(SolveDAfter.val, SolveD.val))
    => out = None

\* C9: the invariant is monotone under deposits: for positive balances, amp
\* in range and amounts for which both solves succeed,
\* calc_d(bal0 + amt0, bal1 + amt1, amp) >= calc_d(bal0, bal1, amp).
C9_DepositRaisesInvariant ==
    (/\ Called("calc_lp_tokens") /\ ~ub
     /\ ~IsZero(args.bal0) /\ ~IsZero(args.bal1)
     /\ AmpInRange(args.amp)
     /\ IsSome(SolveD) /\ IsSome(SolveDAfter))
    => Ge(SolveDAfter.val, SolveD.val)

\* lp_supply * (d1 - d0) / d0 in unbounded arithmetic, for d1 >= d0
Minted(lp_supply, d0, d1) == MulDiv(lp_supply, Sub(d1, d0), d0)

\* C13: calc_lp_tokens with lp_supply > 0 fails if either calc_d fails or
\* D0 = 0, and otherwise returns floor(lp_supply * (D1 - D0) / D0), the
\* whole quotient.
C13_IncrementalDeposit ==
    (Called("calc_lp_tokens") /\ ~ub /\ ~IsZero(args.lp_supply))
    => IF IsNone(SolveD) \/ IsNone(SolveDAfter) \/ IsZero(SolveD.val)
       THEN out = None
       ELSE Ge(SolveDAfter.val, SolveD.val)
            => out = Some(Minted(args.lp_supply, SolveD.val, SolveDAfter.val))

(***************************************************************************)
(* SpecWithdraw: one call of calc_withdraw                                 *)
(***************************************************************************)
NumWithdrawLp == 3
NumWithdrawBal0 == 3
NumWithdrawBal1 == 2

WithdrawLpTable == <<E(1, 12), One, Zero, Neg64(1), N(4), N(2)>>
WithdrawBal0Table == <<E(1, 19), N(5), Zero, N(7), Neg64(1)>>
WithdrawBal1Table == <<N(5), E(1, 19), N(7), Zero>>

InitWithdraw ==
    \E l \in Prefix(WithdrawLpTable, NumWithdrawLp),
       s \in Prefix(WithdrawLpTable, NumWithdrawLp),
       b0 \in Prefix(WithdrawBal0Table, NumWithdrawBal0),
       b1 \in Prefix(WithdrawBal1Table, NumWithdrawBal1) :
        Start([lp_amount |-> l, bal0 |-> b0, bal1 |-> b1, lp_supply |-> s])

NextWithdraw == Call_calc_withdraw

SpecWithdraw == InitWithdraw /\ [][NextWithdraw]_vars

\* C5: burning the whole supply returns the whole pool: for lp_supply > 0 and
\* all balances, calc_withdraw(lp_supply, bal0, bal1, lp_supply) = (bal0, bal1).
C5_WithdrawAll ==
    (/\ Called("calc_withdraw")
     /\ ~IsZero(args.lp_supply)
     /\ args.lp_amount = args.lp_supply)
    => out = Some(<<args.bal0, args.bal1>>)

\* the whole supply of a pool whose products exceed 64 bits was burned
C5_Witness ==
    /\ Called("calc_withdraw")
    /\ args.lp_amount = args.lp_supply
    /\ Gt(Mul(args.bal0, args.lp_amount), U64_MAX)
    /\ out = Some(<<args.bal0, args.bal1>>)

\* the two payouts, in unbounded arithmetic
Payouts(lp_amount, bal0, bal1, lp_supply) ==
    <<MulDiv(bal0, lp_amount, lp_supply), MulDiv(bal1, lp_amount, lp_supply)>>

\* C14 as stated: calc_withdraw fails when lp_supply = 0, and for
\* lp_supply > 0 returns floor(balance_i * lp_amount / lp_supply) for both
\* tokens.
C14_WithdrawProportional ==
    Called("calc_withdraw")
    => IF IsZero(args.lp_supply) THEN out = None
       ELSE out = Some(Payouts(args.lp_amount, args.bal0, args.bal1,
                               args.lp_supply))

\* C14 amended: calc_withdraw fails when lp_supply = 0, and for
\* 0 < lp_amount <= lp_supply returns floor(balance_i * lp_amount /
\* lp_supply) for both tokens; a payout of 2^64 or more, which needs
\* lp_amount > lp_supply, is returned modulo 2^64.
C14_WithdrawWithinSupply ==
    Called("calc_withdraw")
    => IF IsZero(args.lp_supply) THEN out = None
       ELSE /\ IsSome(out)
            /\ out.val = <<Cast64(Payouts(args.lp_amount, args.bal0, args.bal1,
                                          args.lp_supply)[1]),
                           Cast64(Payouts(args.lp_amount, args.bal0, args.bal1,
                                          args.lp_supply)[2])>>
            /\ Le(args.lp_amount, args.lp_supply)
               => out.val = Payouts(args.lp_amount, args.bal0, args.bal1,
                                    args.lp_supply)

\* a part of the supply was burned for a payout that is not the whole balance
C14_Witness ==
    /\ Called("calc_withdraw")
    /\ ~IsZero(args.lp_amount) /\ Lt(args.lp_amount, args.lp_supply)
    /\ ~IsZero(args.bal0)
    /\ IsSome(out) /\ Lt(out.val[1], args.bal0)
    /\ out.val = Payouts(args.lp_amount, args.bal0, args.bal1, args.lp_supply)

(***************************************************************************)
(* SpecPrice: one call of calc_virtual_price                               *)
(***************************************************************************)
NumPriceBal0 == 3
NumPriceBal1 == 2
NumPriceSupply == 3
NumPriceAmp == 3

PriceBal0Table == <<E(1, 6), N(584), E(1, 12), N(1), N(10)>>
PriceBal1Table == <<N(1), E(1, 6), E(1, 12), N(10)>>
PriceSupplyTable == <<Zero, One, E(1, 12), N(3), E(2, 6)>>

InitPrice ==
    \E b0 \in Prefix(PriceBal0Table, NumPriceBal0),
       b1 \in Prefix(PriceBal1Table, NumPriceBal1),
       s \in Prefix(PriceSupplyTable, NumPriceSupply),
       a \in Prefix(AmpTable, NumPriceAmp) :
        Start([bal0 |-> b0, bal1 |-> b1, lp_supply |-> s, amp |-> a])

NextPrice == Call_calc_virtual_price

SpecPrice == InitPrice /\ [][NextPrice]_vars

\* C15: calc_virtual_price returns floor(calc_d(bal0, bal1, amp) * 10^18 /
\* lp_supply) when lp_supply > 0 and calc_d succeeds, and failure when
\* lp_supply = 0 or calc_d fails.
C15_VirtualPrice ==
    (Called("calc_virtual_price") /\ ~ub)
    => IF IsZero(args.lp_supply) \/ IsNone(SolveD) THEN out = None
       ELSE out = Some(MulDiv(SolveD.val, E(1, 18), args.lp_supply))

\* a price of more than 64 bits was returned
C15_Witness ==
    /\ Called("calc_virtual_price")
    /\ IsSome(out) /\ Gt(out.val, U64_MAX)
    /\ out = Some(MulDiv(SolveD.val, E(1, 18), args.lp_supply))

(***************************************************************************)
(* SpecAmp: one call of get_current_amp; the timestamps are not negative   *)
(***************************************************************************)
NumRampAmp == 2
NumRampStart == 2
NumRampEnd == 3
NumRampNow == 4

RampAmpTable == <<N(1), N(200), N(100), N(100000)>>
RampTargetTable == <<N(100000), N(100), N(200), N(1)>>
RampStartTable == <<N(1000), Zero, N(2000), N(1500)>>
RampEndTable == <<N(2000), N(1000), Pow2(62), N(500), N(1500)>>
RampNowTable == <<N(1000), N(1500), N(2000), Pow2(61), Zero, N(1250)>>

InitAmp ==
    \E a \in Prefix(RampAmpTable, NumRampAmp),
       t \in Prefix(RampTargetTable, NumRampAmp),
       s \in Prefix(RampStartTable, NumRampStart),
       e \in Prefix(RampEndTable, NumRampEnd),
       n \in Prefix(RampNowTable, NumRampNow) :
        Start([amp |-> a, target_amp |-> t, ramp_start |-> s, ramp_end |-> e,
               now |-> n])

NextAmp == Call_get_current_amp

SpecAmp == InitAmp /\ [][NextAmp]_vars

\* C6 as stated: get_current_amp returns amp when now = ramp_start and
\* target_amp when now = ramp_end, for every amp, target_amp, ramp_start and
\* ramp_end.
C6_RampEnds ==
    Called("get_current_amp")
    => /\ args.now = args.ramp_start => out = Some(args.amp)
       /\ args.now = args.ramp_end => out = Some(args.target_amp)

\* C6 amended: get_current_amp returns target_amp when now = ramp_end, for
\* every amp, target_amp and ramp_start; it returns amp when now = ramp_start
\* and ramp_start < ramp_end, and target_amp when now = ramp_start and
\* ramp_end <= ramp_start.
C6_RampEndsOrdered ==
    Called("get_current_amp")
    => /\ args.now = args.ramp_end => out = Some(args.target_amp)
       /\ args.now = args.ramp_start
          => out = Some(IF SLt(args.ramp_start, args.ramp_end)
                        THEN args.amp ELSE args.target_amp)

\* the call was made at the start of a window of no length, with distinct
\* amps, and returned target_amp
C6_Witness ==
    /\ Called("get_current_amp")
    /\ args.now = args.ramp_start /\ args.ramp_end = args.ramp_start
    /\ args.amp # args.target_amp
    /\ out = Some(args.target_amp)

\* |target_amp - amp|, and amp moved towards target_amp by step
AmpGap(amp, target_amp) ==
    IF Gt(target_amp, amp) THEN Sub(target_amp, amp) ELSE Sub(amp, target_amp)

AmpMoved(amp, target_amp, step) ==
    IF Gt(target_amp, amp) THEN Add(amp, step) ELSE Sub(amp, step)

\* the step of the interpolation, in unbounded arithmetic
RampStep(amp, target_amp, ramp_start, ramp_end, now) ==
    MulDiv(AmpGap(amp, target_amp), Sub(now, ramp_start),
           Sub(ramp_end, ramp_start))

InsideRamp == SLt(args.ramp_start, args.now) /\ SLt(args.now, args.ramp_end)

AtMidpoint == MulSmall(Sub(args.now, args.ramp_start), 2)
              = Sub(args.ramp_end, args.ramp_start)

AmpBetween ==
    IF Gt(args.target_amp, args.amp)
    THEN Ge(out.val, args.amp) /\ Le(out.val, args.target_amp)
    ELSE Ge(out.val, args.target_amp) /\ Le(out.val, args.amp)

\* the call reached the interpolation only with 0 < elapsed < duration (the
\* two differences converted to uint64_t)
ElapsedInside ==
    (/\ ~(SLe(args.ramp_end, args.now) \/ args.ramp_end = args.ramp_start)
     /\ ~SLe(args.now, args.ramp_start))
    => /\ Lt(Zero, U64Sub(args.now, args.ramp_start))
       /\ Lt(U64Sub(args.now, args.ramp_start),
             U64Sub(args.ramp_end, args.ramp_start))

\* what the call returns at the time n, the other arguments kept
AmpAt(n) ==
    get_current_amp(args.amp, args.target_amp, args.ramp_start, args.ramp_end, n)

\* r2 is not further from target_amp than r1
Toward(r1, r2) ==
    IF Gt(args.target_amp, args.amp) THEN Le(r1, r2) ELSE Ge(r1, r2)

\* at the time n the product of the interpolation is below 2^64
NoWrapAt(n) ==
    (SLt(args.ramp_start, n) /\ SLt(n, args.ramp_end))
    => Le(Mul(AmpGap(args.amp, args.target_amp), Sub(n, args.ramp_start)),
          U64_MAX)

\* the times the result of the call is compared with
MonotoneNows == {Zero, N(1250), N(1750), N(2500), Pow2(47), Pow2(57), Pow2(61), Pow2(62)}

NumRewardStaked == 3
NumRewardAcc == 3
NumRewardDebt == 3
NumRewardAmount == 2
NumRewardTotal == 2

StakedTable == <<N(1000), Pow2(63), Zero, One>>
AccTable == <<E(5, 12), Pow2(63), Zero, E(1, 19)>>
DebtTable == <<N(1000), N(6000), Zero, Neg64(1)>>
RewardTable == <<E(1, 9), E(1, 7), Zero, One>>
TotalStakedTable == <<One, Zero, N(1000)>>

InitReward ==
    \E s \in Prefix(StakedTable, NumRewardStaked),
       a \in Prefix(AccTable, NumRewardAcc),
       d \in Prefix(DebtTable, NumRewardDebt),
       r \in Prefix(RewardTable, NumRewardAmount),
       t \in Prefix(TotalStakedTable, NumRewardTotal) :
        Start([staked |-> s, acc_reward |-> a, reward_debt |-> d,
               reward |-> r, total_staked |-> t])

NextReward == Call_calc_pending_reward \/ Call_calc_new_acc_reward

SpecReward == InitReward /\ [][NextReward]_vars

\* floor(staked * acc_reward / 10^12), in unbounded arithmetic
Earned(staked, acc_reward) == MulDiv(staked, acc_reward, PRECISION)

\* earned less the debt, 0 when that is not positive
Pending(earned, reward_debt) ==
    IF Gt(earned, reward_debt) THEN Sub(earned, reward_debt) ELSE Zero

\* C17: calc_pending_reward returns floor(staked * acc_reward / 10^12) -
\* reward_debt when that difference is positive and 0 otherwise; it does not
\* wrap and does not truncate a difference of more than 64 bits.
C17_PendingReward ==
    Called("calc_pending_reward")
    => out = Some(Pending(Earned(args.staked, args.acc_reward), args.reward_debt))

\* C18: calc_new_acc_reward returns current_acc when total_staked = 0 and
\* current_acc + floor(reward * 10^12 / total_staked) otherwise, with nothing
\* lost in the 64-bit cast of the increase or in the 64-bit addition.
C18_NewAccReward ==
    Called("calc_new_acc_reward")
    => out = Some(IF IsZero(args.total_staked) THEN args.acc_reward
                  ELSE Add(args.acc_reward,
                           MulDiv(args.reward, PRECISION, args.total_staked)))

(***************************************************************************)
(* SpecFarm: a farm's accumulator under a sequence of distributions, one   *)
(* staker's debt captured from it at any time, and the staker's pending    *)
(* reward read at any time                                                 *)
(***************************************************************************)
MaxUpdates == 3
NumFarmStaked == 2
NumFarmTotal == 2
NumFarmReward == 2

FarmStakedTable == <<N(1000), One, E(1, 6)>>
FarmTotalStakedTable == <<One, N(1000), E(1, 6)>>
FarmRewardTable == <<E(1, 7), E(1, 6), One>>

InitFarm ==
    /\ \E s \in Prefix(FarmStakedTable, NumFarmStaked),
          t \in Prefix(FarmTotalStakedTable, NumFarmTotal) :
           farm = [acc_reward |-> Zero, total_staked |-> t, staked |-> s,
                   reward_debt |-> Zero, updates |-> 0]
    /\ args = Zero
    /\ op = ""
    /\ out = NoCall
    /\ ub = FALSE
    /\ pc = "start"
    /\ loop = NoLoop

\* a distribution: acc_reward = calc_new_acc_reward(acc_reward, reward, total_staked)
Farm_update_acc ==
    /\ farm.updates < MaxUpdates
    /\ \E reward \in Prefix(FarmRewardTable, NumFarmReward) :
        /\ args' = [acc_reward |-> farm.acc_reward, reward |-> reward,
                    total_staked |-> farm.total_staked]
        /\ farm' = [farm EXCEPT
                      !.acc_reward = calc_new_acc_reward(farm.acc_reward, reward,
                                                         farm.total_staked),
                      !.updates = @ + 1]
    /\ out' = Some(farm'.acc_reward)
    /\ op' = "calc_new_acc_reward"
    /\ pc' = "done"
    /\ UNCHANGED <<ub, loop>>

\* the staker's debt is captured: reward_debt = staked * acc_reward / 10^12
Farm_capture_debt ==
    /\ farm.updates > 0
    /\ farm' = [farm EXCEPT
                  !.reward_debt = Cast64(Div(mul128(farm.staked, farm.acc_reward),
                                             PRECISION))]
    /\ farm'.reward_debt # farm.reward_debt
    /\ UNCHANGED <<args, op, out, ub, pc, loop>>

\* the staker's pending reward is read
Farm_pending_reward ==
    /\ farm.updates > 0
    /\ args' = [staked |-> farm.staked, acc_reward |-> farm.acc_reward,
                reward_debt |-> farm.reward_debt]
    /\ out' = Some(calc_pending_reward(farm.staked, farm.acc_reward,
                                       farm.reward_debt))
    /\ op' = "calc_pending_reward"
    /\ pc' = "done"
    /\ UNCHANGED <<ub, farm, loop>>

NextFarm == Farm_update_acc \/ Farm_capture_debt \/ Farm_pending_reward

SpecFarm == InitFarm /\ [][NextFarm]_vars

\* C19: over any sequence of updates acc := calc_new_acc_reward(acc, reward,
\* total_staked) the accumulator never decreases, and so for a staker whose
\* debt was captured as floor(staked * acc / 10^12) earlier,
\* floor(staked * acc / 10^12) >= debt in every later state.
C19_AccumulatorMonotone ==
    /\ [][Le(farm.acc_reward, farm'.acc_reward)]_vars
    /\ [](Ge(Earned(farm.staked, farm.acc_reward), farm.reward_debt))

(***************************************************************************)
(* SpecSqrt: one call of isqrt or isqrt128                                 *)
(***************************************************************************)
NumSqrtSmall == 40
NumSqrtBig == 6

SqrtBigTable == <<U64_MAX, Sub(Pow2(128), One), Pow2(64), E(1, 18),
                  Sub(Pow2(64), Two), Mul(U64_MAX, U64_MAX), E(4, 16), Pow2(127)>>

SqrtInputs == {N(i) : i \in 0..NumSqrtSmall} \cup Prefix(SqrtBigTable, NumSqrtBig)

InitSqrt == \E n \in SqrtInputs : Start([n |-> n])

NextSqrt == Call_isqrt \/ Call_isqrt128

SpecSqrt == InitSqrt /\ [][NextSqrt]_vars

\* C20: isqrt(n) and isqrt128(n) terminate for every input of their width,
\* the maximum included, and return the floor square root r, r*r <= n <
\* (r+1)*(r+1); isqrt(0) = 0, isqrt(1) = isqrt(2) = isqrt(3) = 1; no pass of
\* the loop divides by zero.
C20_IntegerSqrt ==
    (Called("isqrt") \/ Called("isqrt128"))
    => /\ ~ub
       /\ IsSome(out)
       /\ IsFloorSqrt(out.val, args.n)
       /\ IsZero(args.n) => out.val = Zero
       /\ (Ge(args.n, One) /\ Le(args.n, N(3))) => out.val = One


(***************************************************************************)
(* SpecY: one call of calc_y                                               *)
(***************************************************************************)
NumYX == 5
NumYD == 4
NumYAmp == 3

YXTable == <<Zero, N(1), Neg64(2), Pow2(63), N(1000), E(1, 6)>>
YDTable == <<N(2), N(2000), Zero, E(2, 6), E(1, 12)>>
YAmpTable == <<Zero, N(1), N(100), N(100000)>>

InitY == \E x \in Prefix(YXTable, NumYX), d \in Prefix(YDTable, NumYD),
            a \in Prefix(YAmpTable, NumYAmp) :
             Start([x_new |-> x, d |-> d, amp |-> a])

NextY == Call_calc_y

SpecY == InitY /\ [][NextY]_vars

\* C21: calc_y executes no division by zero, and it returns nullopt when
\* x_new = 0 or amp = 0 (the divisors 2 * x_new, 2 * Ann and Ann).
C21_ZeroDivisorFails ==
    Called("calc_y") =>
        /\ ~ub
        /\ (IsZero(args.x_new) \/ IsZero(args.amp)) => IsNone(out)

\* the part of C21 the code keeps: a zero Newton denominator is reported
C21_ZeroDenominator ==
    /\ Called("calc_y")
    /\ args.x_new = Neg64(2) /\ args.d = N(2) /\ args.amp = N(1)
    /\ ~ub /\ IsNone(out)

(***************************************************************************)
(* SpecN: one call of an N-token entry point, on 2 or 3 tokens, swapping   *)
(* token 0 for token 1, or one call of its 2-token counterpart             *)
(***************************************************************************)
NumNBalances == 8
NumNAmount == 3
NumNAmp == 2
NumNFee == 1

NBalancesTable ==
    <<<<E(1, 6), E(1, 6)>>, <<Zero, N(5), N(7)>>, <<N(1000), Zero>>,
      <<Pow2(63), Pow2(63)>>, <<E(1, 12), E(1, 12)>>, <<Zero, Zero, Zero>>,
      <<N(100), N(200), N(300)>>, <<Zero, Zero>>, <<N(5), N(7), Zero>>,
      <<N(3), N(900)>>>>
NAmountTable == <<Zero, N(5), E(1, 5), E(1, 11)>>
NFeeTable == <<N(30), Zero>>

InitN == \E b \in Prefix(NBalancesTable, NumNBalances),
            x \in Prefix(NAmountTable, NumNAmount),
            a \in Prefix(AmpTable, NumNAmp),
            f \in Prefix(NFeeTable, NumNFee) :
             Start([balances |-> b, bal0 |-> b[1], bal1 |-> b[2],
                    from_idx |-> 0, to_idx |-> 1,
                    amount_in |-> x, amp |-> a, fee_bps |-> f])

\* the 2-token functions are called on the first two balances
NextN ==
    \/ Call_calc_d_n \/ Call_calc_y_n \/ Call_simulate_swap_n
    \/ Call_calc_d \/ Call_simulate_swap

SpecN == InitN /\ [][NextN]_vars

\* some balance is 0
ZeroBalance(balances) == \E i \in 1..Len(balances) : IsZero(balances[i])

\* some balance other than token to_idx's is 0, the input token's taken
\* after amount_in is added
ZeroOtherBalance ==
    \E i \in 1..Len(args.balances) :
        /\ i - 1 # args.to_idx
        /\ IsZero(IF i - 1 = args.from_idx
                  THEN U64Add(args.balances[i], args.amount_in)
                  ELSE args.balances[i])

C22_WitnessY ==
    /\ Called("calc_y_n")
    /\ args.balances = <<Zero, Zero, Zero>> /\ args.amount_in = N(5)
    /\ IsNone(out)

\* the balances that calc_d or calc_d_n was called on
SolvedBalances ==
    IF op = "calc_d" THEN <<args.bal0, args.bal1>> ELSE args.balances

\* C24: calc_d and calc_d_n return a successful 0 when every balance is 0,
\* and in no other case (calls that divide by zero set aside).
C24_ZeroOnlyWhenEmpty ==
    (pc = "done" /\ op \in {"calc_d", "calc_d_n"} /\ ~ub) =>
        ((\A i \in 1..Len(SolvedBalances) : IsZero(SolvedBalances[i]))
            <=> out = Some(Zero))

\* the part of C24 the code keeps: the empty pool has D = 0
C24_EmptyPool ==
    /\ Called("calc_d_n")
    /\ args.balances = <<Zero, Zero>>
    /\ out = Some(Zero)

\* what the 2-token counterpart of the N-token function called returns
TwoTokenResult ==
    IF op = "calc_d_n" THEN calc_d(args.bal0, args.bal1, args.amp)
    ELSE simulate_swap(args.bal0, args.bal1, args.amount_in, args.amp,
                       args.fee_bps)

\* C25: on 2 tokens calc_d_n returns what calc_d returns and simulate_swap_n
\* (token 0 in, token 1 out) returns what simulate_swap returns (calls that
\* divide by zero set aside).
C25_TwoTokenAgreement ==
    ( /\ pc = "done" /\ op \in {"calc_d_n", "simulate_swap_n"}
      /\ Len(args.balances) = 2
      /\ ~ub /\ ~IsFault(TwoTokenResult) )
    => out = TwoTokenResult

\* the part of C25 the code keeps: calc_d_n agrees with calc_d on 2 tokens
C25_InvariantAgrees ==
    (Called("calc_d_n") /\ Len(args.balances) = 2 /\ ~IsFault(TwoTokenResult))
    => out = TwoTokenResult

\* simulate_swap_n agrees with simulate_swap while c fits 64 bits
C25_SmallPoolAgrees ==
    /\ Called("simulate_swap_n")
    /\ args.balances = <<E(1, 6), E(1, 6)>> /\ args.amount_in = E(1, 5)
    /\ IsSome(out) /\ ~IsZero(out.val)
    /\ out = TwoTokenResult

(***************************************************************************)
(* SpecNewton: a call of one of the four Newton solvers followed pass by   *)
(* pass.  Enter_<solver> runs the code before the for loop, Pass_<solver>  *)
(* runs one pass of the loop, Loop_exit is the return std::nullopt after   *)
(* the loop.  loop.i is the number of passes made, loop.st the iterate     *)
(* (or what the last pass returned), loop.regs the values fixed before     *)
(* the loop.                                                               *)
(***************************************************************************)
\* a solver leaves the code before its loop with e: a return value, or
\* Run(regs) with the values regs the loop works on, regs.v the first iterate
Enter(name, e) ==
    /\ op' = name
    /\ IF e.kind = "run"
       THEN /\ pc' = "loop"
            /\ loop' = [i |-> 0, st |-> Run(e.val.v), regs |-> e.val]
            /\ UNCHANGED <<args, out, ub, farm>>
       ELSE /\ pc' = "done"
            /\ ub' = IsFault(e)
            /\ out' \in Outcomes(e)
            /\ loop' = [loop EXCEPT !.st = e]
            /\ UNCHANGED <<args, farm>>

\* a pass of the loop of solver name ends with r: the next iterate, or a return
Pass(name, r) ==
    /\ loop' = [loop EXCEPT !.i = @ + 1, !.st = r]
    /\ IF r.kind = "run"
       THEN UNCHANGED <<args, op, out, ub, pc, farm>>
       ELSE /\ pc' = "done"
            /\ ub' = IsFault(r)
            /\ out' \in Outcomes(r)
            /\ UNCHANGED <<args, op, farm>>

InLoop(name) == pc = "loop" /\ op = name /\ loop.i < NEWTON_ITERATIONS

\* for (int i = 0; i < NEWTON_ITERATIONS; i++) has ended: return std::nullopt
Loop_exit ==
    /\ pc = "loop"
    /\ loop.i = NEWTON_ITERATIONS
    /\ pc' = "done"
    /\ out' = None
    /\ UNCHANGED <<args, op, ub, farm, loop>>

\* calc_d before its loop
calc_d_enter(x, y, amp) ==
    LET s == U64Add(x, y)
    IN  IF IsZero(s) THEN Some(Zero)
        ELSE Run([v |-> s, s |-> s, ann |-> U64Mul(amp, <<4>>)])

\* calc_y before its loop
calc_y_enter(x_new, d, amp) ==
    LET ann == U64Mul(amp, <<4>>)
        x2  == U64Mul(Two, x_new)
    IN  IF IsZero(x2) \/ IsZero(U64Mul(Two, ann)) \/ IsZero(ann) THEN Fault
        ELSE Run([v |-> d,
                  c |-> calc_y_c(Div(mul128(d, d), x2), d, ann),
                  b |-> U64Add(x_new, Div(d, ann)),
                  d |-> d])

\* calc_d_n before its Newton loop
calc_d_n_enter(balances, amp) ==
    LET s == SumU64(balances, Len(balances))
    IN  IF IsZero(s) THEN Some(Zero)
        ELSE Run([v |-> s, s |-> s,
                  ann |-> U64Mul(amp, Cast64(PowNN(Len(balances))))])

\* calc_y_n before its Newton loop: the call of calc_d_n, the fold over the
\* other tokens, c and b
calc_y_n_enter(balances, from_idx, to_idx, amount_in, amp) ==
    LET n   == Len(balances)
        ann == U64Mul(amp, Cast64(PowNN(n)))
        dr  == calc_d_n(balances, amp)
        fr  == fold_c(balances,
                      [balances EXCEPT ![from_idx + 1] = U64Add(@, amount_in)],
                      from_idx, to_idx, dr.val,
                      [i |-> 1, s_prime |-> Zero, c |-> dr.val])
    IN  IF ~IsSome(dr) THEN dr
        ELSE IF ~IsSome(fr) THEN fr
        ELSE IF IsZero(U64Mul(ann, FromInt(n))) \/ IsZero(ann) THEN Fault
        ELSE Run([v |-> dr.val,
                  c |-> Div(U128Mul(fr.val[2], dr.val), U64Mul(ann, FromInt(n))),
                  b |-> U64Add(fr.val[1], Div(dr.val, ann)),
                  d |-> dr.val])

Enter_calc_d ==
    /\ pc = "start"
    /\ Enter("calc_d", calc_d_enter(args.bal0, args.bal1, args.amp))

Pass_calc_d ==
    /\ InLoop("calc_d")
    /\ Pass("calc_d", calc_d_body(args.bal0, args.bal1, loop.regs.s,
                                  loop.regs.ann, loop.st))

Enter_calc_y ==
    /\ pc = "start"
    /\ Enter("calc_y", calc_y_enter(args.x_new, args.d, args.amp))

Pass_calc_y ==
    /\ InLoop("calc_y")
    /\ Pass("calc_y", calc_y_body(loop.regs.c, loop.regs.b, loop.regs.d, loop.st))

Enter_calc_d_n ==
    /\ pc = "start"
    /\ Enter("calc_d_n", calc_d_n_enter(args.balances, args.amp))

Pass_calc_d_n ==
    /\ InLoop("calc_d_n")
    /\ Pass("calc_d_n", calc_d_n_body(args.balances, loop.regs.s, loop.regs.ann,
                                      loop.st))

Enter_calc_y_n ==
    /\ pc = "start"
    /\ Enter("calc_y_n", calc_y_n_enter(args.balances, args.from_idx, args.to_idx,
                                        args.amount_in, args.amp))

Pass_calc_y_n ==
    /\ InLoop("calc_y_n")
    /\ Pass("calc_y_n", calc_y_n_body(loop.regs.c, loop.regs.b, loop.regs.d,
                                      loop.st))

NumNewtonCases == 8

\* <<balance 0, balance 1, amount_in, amp, the balances after the first two>>
NewtonCaseTable ==
    <<<<N(584), N(1), Zero, N(1), << >> >>,
      <<N(35), N(1), N(5), N(1), << >> >>,
      <<E(1, 6), E(1, 6), E(1, 5), N(100), << >> >>,
      <<Zero, N(1), Zero, N(1), << >> >>,
      <<Zero, Zero, Zero, N(1), << >> >>,
      <<N(100), N(200), N(5), N(1), <<N(300)>> >>,
      <<E(1, 12), E(1, 12), E(1, 11), N(100), << >> >>,
      <<N(35), N(1), Zero, N(1), <<N(7)>> >>,
      <<E(1, 6), N(1), N(5), N(100), << >> >>,
      <<N(3), N(900), N(5), N(2), <<N(1)>> >> >>

\* calc_y is called as simulate_swap calls it, on bal0 + amount_in, with the
\* sum of the two balances for d
InitNewton ==
    \E c \in Prefix(NewtonCaseTable, NumNewtonCases) :
        Start([bal0 |-> c[1], bal1 |-> c[2], amp |-> c[4],
               x_new |-> U64Add(c[1], c[3]), d |-> U64Add(c[1], c[2]),
               balances |-> <<c[1], c[2]>> \o c[5],
               from_idx |-> 0, to_idx |-> 1, amount_in |-> c[3]])

NextNewton ==
    \/ Enter_calc_d \/ Pass_calc_d
    \/ Enter_calc_y \/ Pass_calc_y
    \/ Enter_calc_d_n \/ Pass_calc_d_n
    \/ Enter_calc_y_n \/ Pass_calc_y_n
    \/ Loop_exit

SpecNewton == InitNewton /\ [][NextNewton]_vars

\* A call that has not returned keeps running.  Loop_exit is weakly fair; so
\* are the steps that enter and run the loop, for which WF_vars(NextNewton) is
\* written with ENABLED <<NextNewton>>_vars replaced by the state predicate it
\* is equal to, pc # "done" (a step of the code is possible exactly until the
\* call has returned).
SpecNewtonLive ==
    /\ SpecNewton
    /\ WF_vars(Loop_exit)
    /\ ([]<>(pc = "done") \/ []<><<NextNewton>>_vars)

\* the whole call of the solver named op, on the arguments
Solve ==
    CASE op = "calc_d" -> calc_d(args.bal0, args.bal1, args.amp)
      [] op = "calc_y" -> calc_y(args.x_new, args.d, args.amp)
      [] op = "calc_d_n" -> calc_d_n(args.balances, args.amp)
      [] op = "calc_y_n" -> calc_y_n(args.balances, args.from_idx, args.to_idx,
                                     args.amount_in, args.amp)

\* following the loop pass by pass gives what the whole call gives
StepwiseAgrees == pc = "done" => out \in Outcomes(Solve)

\* a pass from the iterate v: it goes on exactly when the new iterate is more
\* than 1 away from v, and what it returns otherwise is the new iterate
PassRule ==
    (pc = "loop" /\ loop'.i = loop.i + 1) =>
        LET v == loop.st.val
            r == loop'.st
        IN  /\ r.kind = "run" => (~Within1(r.val, v) /\ pc' = "loop")
            /\ r.kind = "some" => (Within1(r.val, v) /\ pc' = "done" /\ out' = r)
            /\ r.kind \in {"none", "ub"} => pc' = "done"

\* after the last pass the call fails
ExitRule == (pc = "loop" /\ loop.i = NEWTON_ITERATIONS) => (pc' = "done" /\ out' = None)

\* C23: a solver makes at most 255 Newton updates, returns the new iterate at
\* the first update within 1 of the previous iterate, returns nullopt when no
\* update of the 255 is, and every call returns.
C23_NewtonTerminates ==
    /\ [](loop.i <= NEWTON_ITERATIONS)
    /\ [][PassRule /\ ExitRule]_vars
    /\ <>(pc = "done")

\* calc_d has made all 255 passes without converging and returned nullopt
C23_Witness ==
    /\ Called("calc_d")
    /\ loop.i = NEWTON_ITERATIONS
    /\ IsNone(out)

\* a solver has returned the iterate of a pass after the first one
C23_WitnessConverged ==
    /\ pc = "done"
    /\ loop.i > 1
    /\ IsSome(out)

(***************************************************************************)
(* SpecZeroIn: one call of simulate_swap with amount_in = 0                *)
(***************************************************************************)
NumZeroInBal == 6
NumZeroInAmp == 3
NumZeroInFee == 2

ZeroInBalTable == <<N(1), N(3), N(10), E(1, 6), N(1000), E(1, 9), N(16)>>
ZeroInFeeTable == <<Zero, N(30), N(10000)>>

InitZeroIn ==
    \E b0 \in Prefix(ZeroInBalTable, NumZeroInBal),
       b1 \in Prefix(ZeroInBalTable, NumZeroInBal),
       a \in Prefix(AmpTable, NumZeroInAmp),
       f \in Prefix(ZeroInFeeTable, NumZeroInFee) :
        Start([bal0 |-> b0, bal1 |-> b1, amount_in |-> Zero, amp |-> a,
               fee_bps |-> f])

NextZeroIn == Call_simulate_swap

SpecZeroIn == InitZeroIn /\ [][NextZeroIn]_vars

\* C26: with positive balances and amp in range, simulate_swap of
\* amount_in = 0 fails or returns 0.
C26_NothingInNothingOut ==
    ( /\ Called("simulate_swap")
      /\ IsZero(args.amount_in)
      /\ ~IsZero(args.bal0) /\ ~IsZero(args.bal1)
      /\ AmpInRange(args.amp) )
    => (~ub /\ (IsNone(out) \/ out = Some(Zero)))

\* on a balanced pool nothing in gives nothing out
C26_BalancedPool ==
    /\ Called("simulate_swap")
    /\ args.bal0 = E(1, 6) /\ args.bal1 = E(1, 6)
    /\ out = Some(Zero)

(***************************************************************************)
(* SpecStakers: a fixed set of stakers whose debts are captured from the   *)
(* accumulator at the start, a sequence of distributions, and the stakers' *)
(* pending rewards read at any time                                        *)
(***************************************************************************)
MaxDistributions == 3
NumStakersStakes == 3
NumStakersAcc == 3
NumStakersReward == 2

StakersStakesTable == <<<<One, One>>, <<N(1000), N(3000)>>, <<E(1, 6), One>>,
                        <<N(7), N(5)>>>>
StakersAccTable == <<Zero, E(5, 11), Sub(PRECISION, One), E(1, 12)>>
StakersRewardTable == <<One, N(1000), E(1, 6)>>

RECURSIVE SumSeq(_)
SumSeq(s) == IF s = << >> THEN Zero ELSE Add(Head(s), SumSeq(Tail(s)))

InitStakers ==
    /\ \E s \in Prefix(StakersStakesTable, NumStakersStakes),
          a \in Prefix(StakersAccTable, NumStakersAcc) :
           farm = [acc_reward |-> a, total_staked |-> Cast64(SumSeq(s)),
                   staked |-> s,
                   reward_debt |->
                       [i \in DOMAIN s |->
                           Cast64(Div(mul128(s[i], a), PRECISION))],
                   distributed |-> Zero, updates |-> 0]
    /\ args = Zero
    /\ op = ""
    /\ out = NoCall
    /\ ub = FALSE
    /\ pc = "start"
    /\ loop = NoLoop

\* a distribution: acc_reward = calc_new_acc_reward(acc_reward, reward, total_staked)
Stakers_distribute ==
    /\ farm.updates < MaxDistributions
    /\ \E reward \in Prefix(StakersRewardTable, NumStakersReward) :
        /\ args' = [acc_reward |-> farm.acc_reward, reward |-> reward,
                    total_staked |-> farm.total_staked]
        /\ farm' = [farm EXCEPT
                      !.acc_reward = calc_new_acc_reward(farm.acc_reward, reward,
                                                         farm.total_staked),
                      !.distributed = Add(@, reward),
                      !.updates = @ + 1]
    /\ out' = Some(farm'.acc_reward)
    /\ op' = "calc_new_acc_reward"
    /\ pc' = "done"
    /\ UNCHANGED <<ub, loop>>

\* every staker's pending reward is read; out is their sum
Stakers_pending ==
    /\ farm.updates > 0
    /\ args' = [staked |-> farm.staked, acc_reward |-> farm.acc_reward,
                reward_debt |-> farm.reward_debt]
    /\ out' = Some(SumSeq([i \in DOMAIN farm.staked |->
                              calc_pending_reward(farm.staked[i], farm.acc_reward,
                                                  farm.reward_debt[i])]))
    /\ op' = "calc_pending_reward"
    /\ pc' = "done"
    /\ UNCHANGED <<ub, farm, loop>>

NextStakers == Stakers_distribute \/ Stakers_pending

SpecStakers == InitStakers /\ [][NextStakers]_vars

\* C29: for stakers whose stakes sum to total_staked > 0 and whose debts are
\* captured as floor(staked_i * acc / 10^12) at the start, after any sequence
\* of distributions the sum over the stakers of calc_pending_reward(staked_i,
\* acc, debt_i) never exceeds the sum of the distributed rewards.
C29_RewardConservation ==
    Called("calc_pending_reward") => Le(out.val, farm.distributed)

(***************************************************************************)
(* The math namespace of stableswap.hpp (the single-header SDK)            *)
(***************************************************************************)
\* v1 = static_cast<uint64_t>(num / denom), denom not tested
stableswap_newton_step(v, num, denom) ==
    Then(num, IF IsZero(denom) THEN Fault
              ELSE newton_converged(v, Cast64(Div(num, denom))))

\* one pass of the loop of stableswap.hpp's calc_d, once d_p is computed;
\* (ann - 1) * d is a uint64_t product
stableswap_calc_d_step(s, ann, d, d_p) ==
    Then(d_p,
         stableswap_newton_step(
             d,
             U128Mul(U128Add(mul128(ann, s), U128Mul(d_p, Two)), d),
             U128Add(U64Mul(U64Sub(ann, One), d), U128Mul(d_p, <<3>>))))

stableswap_calc_d_body(x, y, s, ann, st) ==
    IF IsZero(U64Mul(Two, x)) \/ IsZero(U64Mul(Two, y)) THEN Fault
    ELSE stableswap_calc_d_step(s, ann, st.val,
                                calc_d_p(U64Mul(Two, y), st.val,
                                         Div(mul128(st.val, st.val), U64Mul(Two, x))))

\* k passes of the loop, or fewer when a pass returns
RECURSIVE stableswap_calc_d_iter(_, _, _, _, _, _)
stableswap_calc_d_iter(x, y, s, ann, k, st) ==
    IF st.kind # "run" \/ k = 0 THEN st
    ELSE IF k = 1 THEN stableswap_calc_d_body(x, y, s, ann, st)
    ELSE LET h == stableswap_calc_d_iter(x, y, s, ann, k \div 2, st)
         IN  IF h.kind # "run" THEN h
             ELSE stableswap_calc_d_iter(x, y, s, ann, k - k \div 2, h)

stableswap_calc_d(x, y, amp) ==
    IF IsZero(U64Add(x, y)) THEN Some(Zero)
    ELSE Returned(stableswap_calc_d_iter(x, y, U64Add(x, y), U64Mul(amp, <<4>>),
                                         NEWTON_ITERATIONS, Run(U64Add(x, y))))

\* one pass of the loop of stableswap.hpp's calc_y on the iterate st.val
stableswap_calc_y_body(c, b, d, st) ==
    stableswap_newton_step(st.val,
                           U128Add(mul128(st.val, st.val), c),
                           U64Sub(U64Add(U64Mul(Two, st.val), b), d))

RECURSIVE stableswap_calc_y_iter(_, _, _, _, _)
stableswap_calc_y_iter(c, b, d, k, st) ==
    IF st.kind # "run" \/ k = 0 THEN st
    ELSE IF k = 1 THEN stableswap_calc_y_body(c, b, d, st)
    ELSE LET h == stableswap_calc_y_iter(c, b, d, k \div 2, st)
         IN  IF h.kind # "run" THEN h
             ELSE stableswap_calc_y_iter(c, b, d, k - k \div 2, h)

\* stableswap.hpp's calc_y from c and b on, y starting at d
stableswap_calc_y_loop(c, b, d) ==
    Then(c, Then(b, Returned(stableswap_calc_y_iter(c, b, d, NEWTON_ITERATIONS,
                                                    Run(d)))))

stableswap_calc_y(x_new, d, amp) ==
    IF \/ IsZero(U64Mul(Two, x_new))
       \/ IsZero(U64Mul(Two, U64Mul(amp, <<4>>)))
       \/ IsZero(U64Mul(amp, <<4>>))
    THEN Fault
    ELSE stableswap_calc_y_loop(
             calc_y_c(Div(mul128(d, d), U64Mul(Two, x_new)), d, U64Mul(amp, <<4>>)),
             U64Add(x_new, Div(d, U64Mul(amp, <<4>>))),
             d)

\* the end of stableswap.hpp's simulate_swap: amount_out = bal_out -
\* *new_bal_out in uint64_t, then the fee
stableswap_swap_out(bal_out, fee_bps, new_bal_out) ==
    IF ~IsSome(new_bal_out) THEN new_bal_out
    ELSE Some(apply_fee(U64Sub(bal_out, new_bal_out.val), fee_bps))

\* stableswap.hpp's simulate_swap from the invariant d on
stableswap_swap_with_d(bal_in, bal_out, amount_in, amp, fee_bps, d) ==
    IF ~IsSome(d) THEN d
    ELSE stableswap_swap_out(bal_out, fee_bps,
                             stableswap_calc_y(U64Add(bal_in, amount_in), d.val, amp))

stableswap_simulate_swap(bal_in, bal_out, amount_in, amp, fee_bps) ==
    stableswap_swap_with_d(bal_in, bal_out, amount_in, amp, fee_bps,
                           stableswap_calc_d(bal_in, bal_out, amp))

\* the initial-deposit loop of stableswap.hpp's calc_lp_tokens with k passes
\* to go: next = (lp + product / lp) / 2 converted to uint64_t
RECURSIVE stableswap_lp_loop(_, _, _)
stableswap_lp_loop(product, lp, k) ==
    IF k = 0 THEN Some(lp)
    ELSE IF IsZero(lp) THEN Fault
    ELSE IF Ge(Cast64(Div(U128Add(lp, Div(product, lp)), Two)), lp) THEN Some(lp)
    ELSE stableswap_lp_loop(product,
                            Cast64(Div(U128Add(lp, Div(product, lp)), Two)),
                            k - 1)

stableswap_calc_lp_tokens(amt0, amt1, bal0, bal1, lp_supply, amp) ==
    IF IsZero(lp_supply) THEN stableswap_lp_loop(mul128(amt0, amt1), One, 64)
    ELSE lp_from_d(lp_supply,
                   stableswap_calc_d(bal0, bal1, amp),
                   stableswap_calc_d(U64Add(bal0, amt0), U64Add(bal1, amt1), amp))

Call_stableswap_simulate_swap ==
    /\ pc = "start"
    /\ Return("stableswap_simulate_swap",
           stableswap_simulate_swap(args.bal0, args.bal1, args.amount_in,
                                    args.amp, args.fee_bps))

Call_stableswap_calc_lp_tokens ==
    /\ pc = "start"
    /\ Return("stableswap_calc_lp_tokens",
           stableswap_calc_lp_tokens(args.amt0, args.amt1, args.bal0, args.bal1,
                                     args.lp_supply, args.amp))

(***************************************************************************)
(* SpecLegacy: one call of simulate_swap or calc_lp_tokens, of math.hpp or *)
(* of stableswap.hpp, on the same arguments                                *)
(***************************************************************************)
NumLegacyBal == 4
NumLegacyAmount == 3
NumLegacySupply == 2
NumLegacyFee == 2

LegacyBalTable == <<<<E(1, 6), E(1, 6)>>, <<N(1), N(3)>>, <<N(100), N(200)>>,
                    <<E(1, 12), E(1, 12)>>, <<N(35), N(1)>>>>
LegacyAmountTable == <<E(1, 5), Zero, N(4), E(1, 11)>>
LegacySupplyTable == <<Zero, N(1000), E(2, 12)>>
LegacyFeeTable == <<N(30), Zero, N(10000)>>

InitLegacy ==
    \E b \in Prefix(LegacyBalTable, NumLegacyBal),
       a \in Prefix(LegacyAmountTable, NumLegacyAmount),
       s \in Prefix(LegacySupplyTable, NumLegacySupply),
       f \in Prefix(LegacyFeeTable, NumLegacyFee) :
        Start([bal0 |-> b[1], bal1 |-> b[2], amount_in |-> a, amt0 |-> a,
               amt1 |-> a, lp_supply |-> s, amp |-> N(100), fee_bps |-> f])

NextLegacy ==
    \/ Call_stableswap_simulate_swap
    \/ Call_stableswap_calc_lp_tokens
    \/ Call_simulate_swap
    \/ Call_calc_lp_tokens

SpecLegacy == InitLegacy /\ [][NextLegacy]_vars

\* the call left what the function of math.hpp of the same name returns
SameAs(expected) ==
    IF IsFault(expected) THEN ub ELSE ~ub /\ out = expected

\* C30: for every input, simulate_swap and calc_lp_tokens of stableswap.hpp
\* (the initial deposit with lp_supply = 0 and the case of a new output balance
\* >= bal_out included) return the same result, success or failure, as the
\* functions of math.hpp of the same name.
C30_LegacyEquivalent ==
    /\ Called("stableswap_simulate_swap")
       => SameAs(simulate_swap(args.bal0, args.bal1, args.amount_in, args.amp,
                               args.fee_bps))
    /\ Called("stableswap_calc_lp_tokens")
       => SameAs(calc_lp_tokens(args.amt0, args.amt1, args.bal0, args.bal1,
                                args.lp_supply, args.amp))

\* the two simulate_swap agree on SpecLegacy when a trade is made
C30_SwapAgrees ==
    (Called("stableswap_simulate_swap") /\ ~IsZero(args.amount_in))
    => SameAs(simulate_swap(args.bal0, args.bal1, args.amount_in, args.amp,
                            args.fee_bps))

\* the two calc_lp_tokens agree on SpecLegacy on a pool with supply
C30_DepositAgrees ==
    (Called("stableswap_calc_lp_tokens") /\ ~IsZero(args.lp_supply))
    => SameAs(calc_lp_tokens(args.amt0, args.amt1, args.bal0, args.bal1,
                             args.lp_supply, args.amp))
====
